---- MODULE Spec2Model ----
(***************************************************************************)
(* A model of dltools.streaming (src/src/dltools/streaming/base.py): the   *)
(* port/pipe graph, Port.connect, Port.emit, the sequence allocator, the   *)
(* ready queue (queue.PriorityQueue of InputPortWrapper, a binary heap     *)
(* compared through the live first element of each port's buffer) and      *)
(* the scheduling loop Pipeline.pump.                                      *)
(***************************************************************************)
EXTENDS Integers, Sequences, FiniteSets, TLC

\* ------------------------------------------------------------------------
\* Bounds of the model
\* ------------------------------------------------------------------------

\* the most emit calls one pump() call of a Source makes
MaxEmitPerPump == 2

\* the most port names a constructor is given in one list
MaxNames == 2

\* the most node objects constructed in a run of the registry
MaxPipes == 3

\* a direct call emits or records only while fewer than this many items
\* were, in all, emitted, recorded by a sink or counted by a node
MaxDirectItems == 2

\* the most values one infer_schema call is given
MaxData == 3

\* ------------------------------------------------------------------------
\* The nodes of the graph and their ports
\* ------------------------------------------------------------------------

DEFAULT_PORT_NAME == "default"

INPUT == "INPUT"

OUTPUT == "OUTPUT"

\* the registry, in registration order (dict order of Pipeline.pipe_dict)
pipe_dict == <<"A", "B", "Sq", "Sp", "K1", "K2", "K3">>

Nodes == {pipe_dict[i] : i \in 1..Len(pipe_dict)}

Sources == {"A", "B"}

Sinks == {"K1", "K2", "K3"}

Splitters == {"Sp"}

\* input_names with which a Source, too, gets the default input port
input_port_namesForAll(n) ==
  IF n \in Splitters THEN <<"A", "B">> ELSE <<DEFAULT_PORT_NAME>>

\* the input_names each node is constructed with
input_port_names(n) ==
  IF n \in Sources THEN <<>>
  ELSE IF n \in Splitters THEN <<"A", "B">>
  ELSE <<DEFAULT_PORT_NAME>>

\* the output_names each node is constructed with
output_port_names(n) ==
  IF n \in Sinks THEN <<>>
  ELSE IF n \in Splitters THEN <<"X", "Y", "Z">>
  ELSE <<DEFAULT_PORT_NAME>>

Range(s) == {s[i] : i \in 1..Len(s)}

Port(type, name, owner) == [type |-> type, name |-> name, owner |-> owner]

InPorts == {p \in [type : {INPUT}, name : {DEFAULT_PORT_NAME, "A", "B"}, owner : Nodes] :
              p.name \in Range(input_port_names(p.owner))}

OutPorts == {p \in [type : {OUTPUT}, name : {DEFAULT_PORT_NAME, "X", "Y", "Z"}, owner : Nodes] :
               p.name \in Range(output_port_names(p.owner))}

Ports == InPorts \cup OutPorts

VARIABLES
  connected_ports,  \* Port.connected_ports, per port
  hash_order,       \* the order in which a set of ports is iterated (by hash)
  routing,          \* Splitter.routing
  buffer,           \* Port.buffer, per port: a deque of (seq, data)
  input_q,          \* Pipeline.input_q: the heap of the PriorityQueue
  event_seq,        \* Pipeline.event_seq
  emit_count,       \* Pipe._emit_count, per node
  pc,               \* where Pipeline.pump is: drain, deliver, idle, halted
  src_idx,          \* the registry index the source-drain loop is at
  err,              \* the exception that left Pipeline.pump, or "none"
  scenario,         \* which graph was assembled, and the sources' data
  sent,             \* per source: how many items of its data it has emitted
  received,         \* per node: the (port name, data) its on_data_arrival recorded
  next_eid,         \* history: the number of items appended to buffers so far
  delivered,        \* history: the items popped for delivery, in order
  last_call,        \* history: the last on_data_arrival call
  last_emits,       \* history: the Port.emit calls of the last step
  last_pump,        \* history: the last pump_wrapper call
  raised,           \* history: which callback raised last, or "none"
  last_connect,     \* history: the last connect call and how it ended
  round_emits,      \* history: the emit calls the sources made in this round
  steady,           \* history: every finished round had exactly one emit call
  registry,         \* Pipeline.pipe_dict as create_pipe and register build it
  made,             \* the number of node objects constructed so far
  last_op           \* history: the last constructor, registry or direct call

vars == <<connected_ports, hash_order, routing, buffer, input_q, event_seq,
          emit_count, pc, src_idx, err, scenario, sent, received, next_eid, delivered,
          last_call, last_emits, last_pump, raised, last_connect,
          round_emits, steady, registry, made, last_op>>

\* ------------------------------------------------------------------------
\* Construction of nodes and the registry
\* ------------------------------------------------------------------------

\* a loop that creates a port for every name and looks for no duplicate
PortDictLoopNoCheck(names, dict, done, i) ==
  [err |-> "none", names |-> done \o SubSeq(names, i, Len(names))]

\* the loop of Pipe.__init__ over a list of port names, from the i-th on:
\* a name already in the port dict raises, otherwise the port is created and
\* the name appended
RECURSIVE PortDictLoop(_, _, _, _)
PortDictLoop(names, dict, done, i) ==
  IF i > Len(names) THEN [err |-> "none", names |-> done]
  ELSE IF names[i] \in dict THEN [err |-> "Exception", names |-> done]
  ELSE PortDictLoop(names, dict \cup {names[i]}, Append(done, names[i]), i + 1)

\* Pipe.__init__(pipeline, input_names=, output_names=)
Pipe_init(input_names, output_names) ==
  LET ins == PortDictLoop(input_names, {}, <<>>, 1)
      outs == PortDictLoop(output_names, {}, <<>>, 1)
  IN IF ins.err # "none" THEN [err |-> ins.err]
     ELSE IF outs.err # "none" THEN [err |-> outs.err]
     ELSE [err |-> "none", input_port_names |-> ins.names,
           output_port_names |-> outs.names]

\* Sink.__init__(pipeline, input_names=)
Sink_init(input_names) == Pipe_init(input_names, <<>>)

\* Source.__init__(pipeline, output_names=)
Source_init(output_names) == Pipe_init(<<>>, output_names)

\* a Splitter.__init__ that looks up the keys of the routing table only
Splitter_initKeysOnly(input_names, output_names, table) ==
  LET r == Pipe_init(input_names, output_names)
  IN IF r.err # "none" THEN r
     ELSE IF \E k \in DOMAIN table : k \notin Range(r.input_port_names)
     THEN [err |-> "Exception"]
     ELSE r

\* Splitter.__init__(pipeline, input_names=, output_names=, routing=): the
\* ports first, then every key and every listed output name is looked up
Splitter_init(input_names, output_names, table) ==
  LET r == Pipe_init(input_names, output_names)
  IN IF r.err # "none" THEN r
     ELSE IF \E k \in DOMAIN table :
               \/ k \notin Range(r.input_port_names)
               \/ \E i \in 1..Len(table[k]) : table[k][i] \notin Range(r.output_port_names)
     THEN [err |-> "Exception"]
     ELSE r

\* klass(pipeline, **kwargs) for a constructor call c
Construct(c) ==
  CASE c.klass = "Pipe" -> Pipe_init(c.input_names, c.output_names)
    [] c.klass = "Source" -> Source_init(c.output_names)
    [] c.klass = "Sink" -> Sink_init(c.input_names)
    [] c.klass = "Splitter" -> Splitter_init(c.input_names, c.output_names, c.routing)

NoNode == [id |-> 0]

\* the node object a successful constructor call c leaves, the id-th made
NodeObject(id, c, r) ==
  [id |-> id, klass |-> c.klass, input_port_names |-> r.input_port_names,
   output_port_names |-> r.output_port_names, routing |-> c.routing]

\* self.pipe_dict[name] = pipe: a name that is there keeps its place in the
\* dict and gets the new value, a new name goes to the end
DictSet(reg, name, pipe) ==
  IF \E i \in 1..Len(reg) : reg[i].name = name
  THEN [i \in 1..Len(reg) |-> IF reg[i].name = name
                              THEN [name |-> name, pipe |-> pipe] ELSE reg[i]]
  ELSE Append(reg, [name |-> name, pipe |-> pipe])

\* Pipeline.create_pipe(name, klass, **kwargs): the registry afterwards, the
\* exception raised and the node made
create_pipe(reg, id, name, c) ==
  LET r == Construct(c)
  IN IF r.err # "none" THEN [registry |-> reg, err |-> r.err, node |-> NoNode]
     ELSE [registry |-> DictSet(reg, name, NodeObject(id, c, r)), err |-> "none",
           node |-> NodeObject(id, c, r)]

\* Pipeline.register(name, pipe)
register(reg, name, pipe) == [registry |-> DictSet(reg, name, pipe), err |-> "none"]

\* the class the model's node n is an instance of
KlassOf(n) ==
  IF n \in Sources THEN "Source" ELSE IF n \in Sinks THEN "Sink"
  ELSE IF n \in Splitters THEN "Splitter" ELSE "Pipe"

\* the registry of the graphs of the scheduling model, the Splitter
\* constructed with the routing table
StaticRegistry(table) ==
  [i \in 1..Len(pipe_dict) |->
     [name |-> pipe_dict[i],
      pipe |-> [id |-> i, klass |-> KlassOf(pipe_dict[i]),
                input_port_names |-> input_port_names(pipe_dict[i]),
                output_port_names |-> output_port_names(pipe_dict[i]),
                routing |-> IF pipe_dict[i] \in Splitters THEN table ELSE <<>>]]]

NoOp == [kind |-> "none"]

\* ------------------------------------------------------------------------
\* Port
\* ------------------------------------------------------------------------

is_buffer_empty(buf) == Len(buf) = 0

\* Pipe.get_input_port: a Source raises, otherwise a dict lookup
get_input_port(n, name) ==
  IF n \in Sources THEN [err |-> "Exception"]
  ELSE IF name \notin Range(input_port_names(n)) THEN [err |-> "KeyError"]
  ELSE [err |-> "none", port |-> Port(INPUT, name, n)]

\* Pipe.get_output_port: a Sink raises, otherwise a dict lookup
get_output_port(n, name) ==
  IF n \in Sinks THEN [err |-> "Exception"]
  ELSE IF name \notin Range(output_port_names(n)) THEN [err |-> "KeyError"]
  ELSE [err |-> "none", port |-> Port(OUTPUT, name, n)]

\* a Port.connect that does not compare the two directions
ConnectOneNoTypeCheck(cp, self, arg) ==
  LET got == IF arg.kind = "port" THEN [err |-> "none", port |-> arg.port]
             ELSE IF self.type = INPUT THEN get_output_port(arg.pipe, DEFAULT_PORT_NAME)
             ELSE get_input_port(arg.pipe, DEFAULT_PORT_NAME)
  IN IF got.err # "none" THEN [cp |-> cp, err |-> got.err]
     ELSE [cp |-> [cp EXCEPT ![got.port] = @ \cup {self},
                             ![self] = @ \cup {got.port}],
           err |-> "none"]

\* Port.connect, one argument: a Port, or a Pipe resolved to its default port
\* of the opposite direction; the result is the new connection sets and the
\* exception raised ("none" if none)
ConnectOne(cp, self, arg) ==
  LET got == IF arg.kind = "port" THEN [err |-> "none", port |-> arg.port]
             ELSE IF self.type = INPUT THEN get_output_port(arg.pipe, DEFAULT_PORT_NAME)
             ELSE get_input_port(arg.pipe, DEFAULT_PORT_NAME)
  IN IF got.err # "none" THEN [cp |-> cp, err |-> got.err]
     ELSE IF got.port.type = self.type THEN [cp |-> cp, err |-> "Exception"]
     ELSE LET cp1 == [cp EXCEPT ![got.port] = @ \cup {self}]
          IN [cp |-> [cp1 EXCEPT ![self] = @ \cup {got.port}], err |-> "none"]

\* Port.connect(*ports): the arguments in turn, up to the first that raises
RECURSIVE PortConnect(_, _, _)
PortConnect(cp, self, args) ==
  IF args = <<>> THEN [cp |-> cp, err |-> "none"]
  ELSE LET r == ConnectOne(cp, self, Head(args))
       IN IF r.err # "none" THEN r ELSE PortConnect(r.cp, self, Tail(args))

\* Pipe.connect(*dest_ports): from the node's default output port
PipeConnect(cp, n, args) ==
  LET got == get_output_port(n, DEFAULT_PORT_NAME)
  IN IF got.err # "none" THEN [cp |-> cp, err |-> got.err]
     ELSE PortConnect(cp, got.port, args)

\* Pipeline.connect: OUTPUT[src_port_name] of one node to INPUT[dst_port_name]
\* of another; a name that is not there is a KeyError
PipelineConnect(cp, src_pipe_name, src_port_name, dst_pipe_name, dst_port_name) ==
  IF \/ src_pipe_name \notin Nodes
     \/ src_port_name \notin Range(output_port_names(src_pipe_name))
     \/ dst_pipe_name \notin Nodes
     \/ dst_port_name \notin Range(input_port_names(dst_pipe_name))
  THEN [cp |-> cp, err |-> "KeyError"]
  ELSE PortConnect(cp, Port(OUTPUT, src_port_name, src_pipe_name),
                   <<[kind |-> "port", port |-> Port(INPUT, dst_port_name, dst_pipe_name)]>>)

\* the order in which "for port in self.connected_ports" visits the set
IterOrder(S) == SelectSeq(hash_order, LAMBDA p : p \in S)

\* ------------------------------------------------------------------------
\* The ready queue: queue.PriorityQueue over InputPortWrapper
\* ------------------------------------------------------------------------

\* a comparison reads buffer[0] of both ports: IndexError when one is empty
CmpRaises(buf, a, b) == is_buffer_empty(buf[a]) \/ is_buffer_empty(buf[b])

\* InputPortWrapper.__gt__: self > other by the first buffered sequence number
InputPortWrapper_gt(buf, self, other) == buf[self][1].seq > buf[other][1].seq

\* a < b, which Python answers by the reflected b.__gt__(a)
WrapperLt(buf, a, b) == InputPortWrapper_gt(buf, b, a)

\* heapq._siftdown, positions counted from 0
RECURSIVE SiftDown(_, _, _, _, _)
SiftDown(buf, h, startpos, pos, newitem) ==
  IF pos > startpos
  THEN LET parentpos == (pos - 1) \div 2
           parent == h[parentpos + 1]
       IN IF CmpRaises(buf, newitem, parent)
          THEN [h |-> [h EXCEPT ![pos + 1] = newitem], err |-> "IndexError"]
          ELSE IF WrapperLt(buf, newitem, parent)
          THEN SiftDown(buf, [h EXCEPT ![pos + 1] = parent], startpos, parentpos, newitem)
          ELSE [h |-> [h EXCEPT ![pos + 1] = newitem], err |-> "none"]
  ELSE [h |-> [h EXCEPT ![pos + 1] = newitem], err |-> "none"]

\* heapq._siftup, positions counted from 0
RECURSIVE SiftUp(_, _, _, _, _)
SiftUp(buf, h, startpos, pos, newitem) ==
  LET endpos == Len(h)
      childpos == 2 * pos + 1
      rightpos == childpos + 1
  IN IF childpos < endpos
     THEN IF rightpos < endpos /\ CmpRaises(buf, h[childpos + 1], h[rightpos + 1])
          THEN [h |-> [h EXCEPT ![pos + 1] = newitem], err |-> "IndexError"]
          ELSE LET c == IF rightpos < endpos
                           /\ ~WrapperLt(buf, h[childpos + 1], h[rightpos + 1])
                        THEN rightpos ELSE childpos
               IN SiftUp(buf, [h EXCEPT ![pos + 1] = h[c + 1]], startpos, c, newitem)
     ELSE SiftDown(buf, h, startpos, pos, newitem)

\* PriorityQueue.put: heappush
QueuePut(buf, h, item) == SiftDown(buf, Append(h, item), 0, Len(h), item)

\* PriorityQueue.get(block=False) on a non-empty queue: heappop
QueueGet(buf, h) ==
  LET lastelt == h[Len(h)]
      rest == SubSeq(h, 1, Len(h) - 1)
  IN IF rest = <<>> THEN [item |-> lastelt, h |-> rest, err |-> "none"]
     ELSE LET r == SiftUp(buf, [rest EXCEPT ![1] = lastelt], 0, 0, lastelt)
          IN [item |-> rest[1], h |-> r.h, err |-> r.err]

\* ------------------------------------------------------------------------
\* Pipeline.get_and_inc_event_seq and Port.emit
\* ------------------------------------------------------------------------

\* the value returned and the counter afterwards: "self.event_seq + 1" is
\* computed and dropped, the counter is not assigned
get_and_inc_event_seq(seq) == [v |-> seq, event_seq |-> seq]

\* a loop of Port.emit that appends to the emitting port's own buffer
RECURSIVE EmitLoopOwnBuffer(_, _, _, _, _)
EmitLoopOwnBuffer(st, self, data, dests, i) ==
  IF i > Len(dests) \/ st.err # "none" THEN st
  ELSE LET alloc == get_and_inc_event_seq(st.event_seq)
           input_was_empty == is_buffer_empty(st.buffer[self])
           buf1 == [st.buffer EXCEPT ![self] =
                      Append(@, [seq |-> alloc.v, data |-> data, eid |-> st.next_eid])]
           put == IF input_was_empty THEN QueuePut(buf1, st.input_q, self)
                  ELSE [h |-> st.input_q, err |-> "none"]
       IN EmitLoopOwnBuffer([st EXCEPT !.buffer = buf1, !.event_seq = alloc.event_seq,
                                       !.next_eid = @ + 1, !.input_q = put.h,
                                       !.err = put.err],
                            self, data, dests, i + 1)

\* a loop of Port.emit that puts the item at the front of the buffer
\* (appendleft)
RECURSIVE EmitLoopAppendLeft(_, _, _, _, _)
EmitLoopAppendLeft(st, self, data, dests, i) ==
  IF i > Len(dests) \/ st.err # "none" THEN st
  ELSE LET port == dests[i]
           alloc == get_and_inc_event_seq(st.event_seq)
           input_was_empty == is_buffer_empty(st.buffer[self])
           buf1 == [st.buffer EXCEPT ![port] =
                      <<[seq |-> alloc.v, data |-> data, eid |-> st.next_eid]>> \o @]
           put == IF input_was_empty THEN QueuePut(buf1, st.input_q, port)
                  ELSE [h |-> st.input_q, err |-> "none"]
       IN EmitLoopAppendLeft([st EXCEPT !.buffer = buf1, !.event_seq = alloc.event_seq,
                                        !.next_eid = @ + 1, !.input_q = put.h,
                                        !.err = put.err],
                             self, data, dests, i + 1)

\* the loop of Port.emit over the connected ports, from the i-th on; st is
\* the state the call works on, st.err the exception on its way out
RECURSIVE EmitLoop(_, _, _, _, _)
EmitLoop(st, self, data, dests, i) ==
  IF i > Len(dests) \/ st.err # "none" THEN st
  ELSE LET port == dests[i]
           alloc == get_and_inc_event_seq(st.event_seq)
           input_was_empty == is_buffer_empty(st.buffer[self])
           buf1 == [st.buffer EXCEPT ![port] =
                      Append(@, [seq |-> alloc.v, data |-> data, eid |-> st.next_eid])]
           put == IF input_was_empty THEN QueuePut(buf1, st.input_q, port)
                  ELSE [h |-> st.input_q, err |-> "none"]
       IN EmitLoop([st EXCEPT !.buffer = buf1, !.event_seq = alloc.event_seq,
                              !.next_eid = @ + 1, !.input_q = put.h, !.err = put.err],
                   self, data, dests, i + 1)

\* a Port.emit that does not look at the direction of the port
PortEmitAnyType(st, self, data) ==
  IF st.err # "none" THEN st
  ELSE EmitLoop([st EXCEPT !.emits = Append(@, [port |-> self, data |-> data])],
                self, data, IterOrder(connected_ports[self]), 1)

\* Port.emit(data)
PortEmit(st, self, data) ==
  IF st.err # "none" THEN st
  ELSE IF self.type # OUTPUT THEN [st EXCEPT !.err = "Exception"]
  ELSE EmitLoop([st EXCEPT !.emits = Append(@, [port |-> self, data |-> data])],
                self, data, IterOrder(connected_ports[self]), 1)

\* Pipe.emit(data, name): the port's emit, then the emit counter
PipeEmit(st, n, data, name) ==
  IF st.err # "none" THEN st
  ELSE LET got == get_output_port(n, name)
       IN IF got.err # "none" THEN [st EXCEPT !.err = got.err]
          ELSE LET r == PortEmit(st, got.port, data)
               IN IF r.err # "none" THEN r
                  ELSE [r EXCEPT !.emit_count[n] = @ + 1]

\* ------------------------------------------------------------------------
\* The graphs and the data the sources hold
\* ------------------------------------------------------------------------

Scenarios == {"chain", "fanin", "fanout", "split", "diamond"}

\* the Pipeline.connect calls that assemble each graph:
\* (src_pipe_name, src_port_name, dst_pipe_name, dst_port_name)
Wiring(sc) ==
  CASE sc = "chain" ->
         << <<"A", DEFAULT_PORT_NAME, "Sq", DEFAULT_PORT_NAME>>,
            <<"Sq", DEFAULT_PORT_NAME, "K1", DEFAULT_PORT_NAME>> >>
    [] sc = "fanin" ->
         << <<"A", DEFAULT_PORT_NAME, "K1", DEFAULT_PORT_NAME>>,
            <<"B", DEFAULT_PORT_NAME, "K1", DEFAULT_PORT_NAME>> >>
    [] sc = "fanout" ->
         << <<"A", DEFAULT_PORT_NAME, "K1", DEFAULT_PORT_NAME>>,
            <<"A", DEFAULT_PORT_NAME, "K2", DEFAULT_PORT_NAME>>,
            <<"A", DEFAULT_PORT_NAME, "K3", DEFAULT_PORT_NAME>> >>
    [] sc = "split" ->
         << <<"A", DEFAULT_PORT_NAME, "Sp", "A">>,
            <<"B", DEFAULT_PORT_NAME, "Sp", "B">>,
            <<"Sp", "X", "K1", DEFAULT_PORT_NAME>>,
            <<"Sp", "Y", "K2", DEFAULT_PORT_NAME>>,
            <<"Sp", "Z", "K3", DEFAULT_PORT_NAME>> >>
    [] sc = "diamond" ->
         << <<"A", DEFAULT_PORT_NAME, "Sq", DEFAULT_PORT_NAME>>,
            <<"A", DEFAULT_PORT_NAME, "K1", DEFAULT_PORT_NAME>>,
            <<"Sq", DEFAULT_PORT_NAME, "K1", DEFAULT_PORT_NAME>> >>

\* what each source's pump() emits, in order, over the run
Script(sc, s) ==
  CASE sc = "chain" -> IF s = "A" THEN <<1, 2, 3>> ELSE <<>>
    [] sc = "fanin" -> IF s = "A" THEN <<"a1", "a2">> ELSE <<"b1">>
    [] sc = "fanout" -> IF s = "A" THEN <<1, 2>> ELSE <<>>
    [] sc = "split" -> IF s = "A" THEN <<1, 2>> ELSE <<3, 4>>
    [] sc = "diamond" -> IF s = "A" THEN <<1, 2>> ELSE <<>>

\* the routing tables a Splitter is constructed with
Routings ==
  { ("A" :> <<"X", "Y">>),
    ("A" :> <<"X", "X">>) @@ ("B" :> <<"Z", "X">>),
    ("A" :> <<"Y", "X">>) @@ ("B" :> <<>>) }

NoLinks == [p \in Ports |-> {}]

RECURSIVE Assemble(_, _)
Assemble(cp, calls) ==
  IF calls = <<>> THEN cp
  ELSE LET c == Head(calls)
       IN Assemble(PipelineConnect(cp, c[1], c[2], c[3], c[4]).cp, Tail(calls))

\* the input ports in construction order
BaseOrder ==
  << Port(INPUT, DEFAULT_PORT_NAME, "Sq"), Port(INPUT, "A", "Sp"), Port(INPUT, "B", "Sp"),
     Port(INPUT, DEFAULT_PORT_NAME, "K1"), Port(INPUT, DEFAULT_PORT_NAME, "K2"),
     Port(INPUT, DEFAULT_PORT_NAME, "K3") >>

\* the iteration orders that differ for the graph cp: the ports that are
\* iterated together with another one in any order, the rest behind them
HashOrders(cp) ==
  LET rel == {p \in InPorts : \E q \in OutPorts : p \in cp[q] /\ Cardinality(cp[q]) > 1}
      rest == SelectSeq(BaseOrder, LAMBDA p : p \notin rel)
      n == Cardinality(rel)
  IN {o \o rest : o \in {f \in [1..n -> rel] : \A i, j \in 1..n : f[i] = f[j] => i = j}}

\* ------------------------------------------------------------------------
\* The callbacks
\* ------------------------------------------------------------------------

\* what a callback can raise: queue.Empty, or any other exception
ExcKinds == {"Empty", "Error"}

\* the exceptions the code of a node raises itself (a failed port lookup, a
\* Source asked to process data); an IndexError comes from the ready queue
CallbackErrors == {"KeyError", "Exception"}

NoCall == [node |-> "none"]

NoPump == [src |-> "none"]

NoConnect == [kind |-> "none"]

\* the state a callback works on
CallState ==
  [buffer |-> buffer, input_q |-> input_q, event_seq |-> event_seq,
   emit_count |-> emit_count, next_eid |-> next_eid, received |-> received,
   emits |-> <<>>, err |-> "none"]

\* a node that squares what it gets
DoubleSquares(data) == data * data

\* Square.on_data_arrival of the tests: data*2
Double(data) == data * 2

\* Splitter.on_data_arrival from the i-th listed output port on
RECURSIVE SplitterLoop(_, _, _, _, _)
SplitterLoop(st, n, output_names, data, i) ==
  IF i > Len(output_names) \/ st.err # "none" THEN st
  ELSE LET got == get_output_port(n, output_names[i])
       IN IF got.err # "none" THEN [st EXCEPT !.err = got.err]
          ELSE SplitterLoop(PortEmit(st, got.port, data), n, output_names, data, i + 1)

\* Splitter.on_data_arrival: routing[name] is a KeyError for a name not in it
Splitter_on_data_arrival(st, n, name, data) ==
  IF name \notin DOMAIN routing THEN [st EXCEPT !.err = "KeyError"]
  ELSE SplitterLoop(st, n, routing[name], data, 1)

\* on_data_arrival of node n, a call that its own code does not abort
on_data_arrival(st, n, name, data) ==
  IF n \in Sources THEN [st EXCEPT !.err = "Exception"]
  ELSE IF n \in Splitters THEN Splitter_on_data_arrival(st, n, name, data)
  ELSE IF n \in Sinks THEN [st EXCEPT !.received[n] = Append(@, <<name, data>>)]
  ELSE PortEmit(st, get_output_port(n, DEFAULT_PORT_NAME).port, Double(data))

\* a pump() that emits the items from the i-th on, each through Pipe.emit
\* ("node") or through the output port's own emit ("port")
RECURSIVE PumpBody(_, _, _, _, _)
PumpBody(st, s, items, via, i) ==
  IF i > Len(items) \/ st.err # "none" THEN st
  ELSE PumpBody(IF via[i] = "node" THEN PipeEmit(st, s, items[i], DEFAULT_PORT_NAME)
                ELSE PortEmit(st, get_output_port(s, DEFAULT_PORT_NAME).port, items[i]),
                s, items, via, i + 1)

\* ------------------------------------------------------------------------
\* Pipeline.pump
\* ------------------------------------------------------------------------

\* the registry index of the first Source at or after index i, 0 if none:
\* "for _, pipe in self.pipe_dict.items(): if isinstance(pipe, Source)"
SourceFrom(i) ==
  LET idx == {j \in i..Len(pipe_dict) : pipe_dict[j] \in Sources}
  IN IF idx = {} THEN 0 ELSE CHOOSE j \in idx : \A k \in idx : j <= k

Min(a, b) == IF a < b THEN a ELSE b

Init ==
  /\ scenario \in Scenarios
  /\ connected_ports = Assemble(NoLinks, Wiring(scenario))
  /\ hash_order \in HashOrders(connected_ports)
  /\ routing \in (IF scenario = "split" THEN Routings ELSE {("A" :> <<"X", "Y">>)})
  /\ buffer = [p \in Ports |-> <<>>]
  /\ input_q = <<>>
  /\ event_seq = 0
  /\ emit_count = [n \in Nodes |-> 0]
  /\ pc = "drain"
  /\ src_idx = SourceFrom(1)
  /\ err = "none"
  /\ sent = [s \in Sources |-> 0]
  /\ received = [n \in Sinks |-> <<>>]
  /\ next_eid = 0
  /\ delivered = <<>>
  /\ last_call = NoCall
  /\ last_emits = <<>>
  /\ last_pump = NoPump
  /\ raised = "none"
  /\ last_connect = NoConnect
  /\ round_emits = 0
  /\ steady = TRUE
  /\ registry = StaticRegistry(routing)
  /\ made = Len(pipe_dict)
  /\ last_op = NoOp

\* what a callback did to the engine's state
Commit(st) ==
  /\ buffer' = st.buffer
  /\ input_q' = st.input_q
  /\ event_seq' = st.event_seq
  /\ emit_count' = st.emit_count
  /\ next_eid' = st.next_eid
  /\ received' = st.received
  /\ last_emits' = st.emits

Graph == <<connected_ports, hash_order, routing, scenario, last_connect,
           registry, made, last_op>>

\* one pass of the inner loop of the source-drain phase: pump_wrapper() of the
\* source the loop is at, whose pump() emits its next k items and returns
PumpWrapper ==
  /\ pc = "drain"
  /\ LET s == pipe_dict[src_idx]
         script == Script(scenario, s)
     IN \E k \in 0..Min(MaxEmitPerPump, Len(script) - sent[s]) :
          \E via \in [1..k -> {"node", "port"}] :
            LET st == PumpBody([CallState EXCEPT !.emit_count[s] = 0], s,
                               SubSeq(script, sent[s] + 1, sent[s] + k), via, 1)
                ret == st.emit_count[s] > 0
            IN /\ Commit(st)
               /\ sent' = [sent EXCEPT ![s] = @ + k]
               /\ round_emits' = round_emits + k
               /\ last_pump' = [src |-> s, calls |-> k, ret |-> ret, err |-> st.err]
               /\ IF st.err # "none"
                  THEN /\ pc' = "halted"
                       /\ err' = st.err
                       /\ src_idx' = src_idx
                  ELSE /\ err' = err
                       /\ IF ret THEN /\ pc' = pc
                                      /\ src_idx' = src_idx
                          ELSE IF SourceFrom(src_idx + 1) # 0
                          THEN /\ pc' = pc
                               /\ src_idx' = SourceFrom(src_idx + 1)
                          ELSE /\ pc' = "deliver"
                               /\ src_idx' = 0
  /\ last_call' = NoCall
  /\ UNCHANGED <<Graph, delivered, raised, steady>>

\* pump() of the source the loop is at raises: nothing catches it
PumpRaises ==
  /\ pc = "drain"
  /\ \E kind \in ExcKinds :
       /\ err' = kind
       /\ last_pump' = [src |-> pipe_dict[src_idx], calls |-> 0, ret |-> FALSE, err |-> kind]
  /\ pc' = "halted"
  /\ raised' = "pump"
  /\ emit_count' = [emit_count EXCEPT ![pipe_dict[src_idx]] = 0]
  /\ last_call' = NoCall
  /\ last_emits' = <<>>
  /\ UNCHANGED <<Graph, buffer, input_q, event_seq, src_idx, sent, received,
                 next_eid, delivered, round_emits, steady>>

\* the scheduler faults on its own: the exception leaves Pipeline.pump
Fault(q, buf, e) ==
  /\ input_q' = q
  /\ buffer' = buf
  /\ pc' = "halted"
  /\ err' = e
  /\ last_call' = NoCall
  /\ last_emits' = <<>>
  /\ UNCHANGED <<event_seq, emit_count, next_eid, received, delivered, raised>>

\* one pass of the delivery loop with a queue that is not empty: get, popleft,
\* on_data_arrival (which returns), and the put back if the buffer is not empty
Deliver ==
  /\ pc = "deliver"
  /\ input_q # <<>>
  /\ LET got == QueueGet(buffer, input_q)
         port == got.item
     IN IF got.err # "none" THEN Fault(got.h, buffer, got.err)
        ELSE IF is_buffer_empty(buffer[port]) THEN Fault(got.h, buffer, "IndexError")
        ELSE LET item == Head(buffer[port])
                 st0 == [CallState EXCEPT !.input_q = got.h,
                                          !.buffer[port] = Tail(@)]
                 st1 == on_data_arrival(st0, port.owner, port.name, item.data)
                 back == IF st1.err = "none" /\ ~is_buffer_empty(st1.buffer[port])
                         THEN QueuePut(st1.buffer, st1.input_q, port)
                         ELSE [h |-> st1.input_q, err |-> st1.err]
                 st2 == [st1 EXCEPT !.input_q = back.h, !.err = back.err]
             IN /\ Commit(st2)
                /\ delivered' = Append(delivered, item.eid)
                /\ last_call' = [node |-> port.owner, port |-> port, name |-> port.name,
                                 data |-> item.data, eid |-> item.eid]
                /\ pc' = IF st2.err # "none" THEN "halted" ELSE pc
                /\ err' = st2.err
                /\ raised' = IF st1.err \in CallbackErrors THEN "on_data_arrival"
                             ELSE raised
  /\ last_pump' = NoPump
  /\ UNCHANGED <<Graph, src_idx, sent, round_emits, steady>>

\* one pass of the delivery loop in which the on_data_arrival that a user's
\* node class defines raises: queue.Empty is taken by "except Empty: break",
\* anything else leaves Pipeline.pump
DeliverRaises ==
  /\ pc = "deliver"
  /\ input_q # <<>>
  /\ LET got == QueueGet(buffer, input_q)
         port == got.item
     IN /\ got.err = "none"
        /\ ~is_buffer_empty(buffer[port])
        /\ port.owner \notin Splitters
        /\ input_q' = got.h
        /\ buffer' = [buffer EXCEPT ![port] = Tail(@)]
        /\ delivered' = Append(delivered, Head(buffer[port]).eid)
        /\ last_call' = [node |-> port.owner, port |-> port, name |-> port.name,
                         data |-> Head(buffer[port]).data, eid |-> Head(buffer[port]).eid]
  /\ \E kind \in ExcKinds :
       IF kind = "Empty" THEN pc' = "idle" /\ err' = err
       ELSE pc' = "halted" /\ err' = kind
  /\ raised' = "on_data_arrival"
  /\ last_emits' = <<>>
  /\ last_pump' = NoPump
  /\ UNCHANGED <<Graph, event_seq, emit_count, src_idx, sent, received, next_eid,
                 round_emits, steady>>

\* a delivery loop that, on an empty queue, starts the next round at once
QueueEmptySkipsIdle ==
  /\ pc = "deliver"
  /\ input_q = <<>>
  /\ pc' = "drain"
  /\ src_idx' = SourceFrom(1)
  /\ round_emits' = 0
  /\ last_call' = NoCall
  /\ last_emits' = <<>>
  /\ last_pump' = NoPump
  /\ UNCHANGED <<Graph, buffer, input_q, event_seq, emit_count, err, sent,
                 received, next_eid, delivered, raised, steady>>

\* the delivery loop finds the queue empty: get raises Empty, the loop breaks
QueueEmpty ==
  /\ pc = "deliver"
  /\ input_q = <<>>
  /\ pc' = "idle"
  /\ last_call' = NoCall
  /\ last_emits' = <<>>
  /\ last_pump' = NoPump
  /\ UNCHANGED <<Graph, buffer, input_q, event_seq, emit_count, src_idx, err, sent,
                 received, next_eid, delivered, raised, round_emits, steady>>

\* the end of a round: on_idle(), if given, and the next round starts
Idle ==
  /\ pc = "idle"
  /\ pc' = "drain"
  /\ src_idx' = SourceFrom(1)
  /\ steady' = (steady /\ round_emits = 1)
  /\ round_emits' = 0
  /\ last_call' = NoCall
  /\ last_emits' = <<>>
  /\ last_pump' = NoPump
  /\ UNCHANGED <<Graph, buffer, input_q, event_seq, emit_count, err, sent,
                 received, next_eid, delivered, raised>>

Next ==
  \/ PumpWrapper
  \/ PumpRaises
  \/ Deliver
  \/ DeliverRaises
  \/ QueueEmpty
  \/ Idle

Spec == Init /\ [][Next]_vars

\* ------------------------------------------------------------------------
\* Graph assembly: the connect calls
\* ------------------------------------------------------------------------

\* the nodes the assembly specification connects: a Source, a Pipe, a Sink
ConnectNodes == {"A", "Sq", "K1"}

ConnectPorts == {p \in Ports : p.owner \in ConnectNodes}

\* what a connect call is given: a Port or a Pipe
ConnectArgs ==
  {[kind |-> "port", port |-> p] : p \in ConnectPorts}
    \cup {[kind |-> "pipe", pipe |-> n] : n \in ConnectNodes}

\* one or two arguments
ArgLists == {<<a>> : a \in ConnectArgs} \cup {<<a, b>> : a \in ConnectArgs, b \in ConnectArgs}

\* the port names a Pipeline.connect call is given
ConnectNames == {DEFAULT_PORT_NAME, "X"}

NoPort == [type |-> "none", name |-> "none", owner |-> "none"]

InitConnect ==
  /\ scenario = "assembly"
  /\ connected_ports = NoLinks
  /\ hash_order = BaseOrder
  /\ routing = ("A" :> <<"X", "Y">>)
  /\ buffer = [p \in Ports |-> <<>>]
  /\ input_q = <<>>
  /\ event_seq = 0
  /\ emit_count = [n \in Nodes |-> 0]
  /\ pc = "setup"
  /\ src_idx = 0
  /\ err = "none"
  /\ sent = [s \in Sources |-> 0]
  /\ received = [n \in Sinks |-> <<>>]
  /\ next_eid = 0
  /\ delivered = <<>>
  /\ last_call = NoCall
  /\ last_emits = <<>>
  /\ last_pump = NoPump
  /\ raised = "none"
  /\ last_connect = NoConnect
  /\ round_emits = 0
  /\ steady = TRUE
  /\ registry = StaticRegistry(routing)
  /\ made = Len(pipe_dict)
  /\ last_op = NoOp

NotGraph == <<hash_order, routing, buffer, input_q, event_seq, emit_count, pc, src_idx,
              err, scenario, sent, received, next_eid, delivered, last_call, last_emits,
              last_pump, raised, round_emits, steady, registry, made, last_op>>

\* port.connect(*args)
CallPortConnect ==
  /\ pc = "setup"
  /\ \E self \in ConnectPorts, args \in ArgLists :
       LET r == PortConnect(connected_ports, self, args)
       IN /\ connected_ports' = r.cp
          /\ last_connect' = [kind |-> "Port.connect", self |-> self, args |-> args,
                              err |-> r.err]
  /\ UNCHANGED NotGraph

\* pipe.connect(*args)
CallPipeConnect ==
  /\ pc = "setup"
  /\ \E n \in ConnectNodes, args \in ArgLists :
       LET r == PipeConnect(connected_ports, n, args)
           got == get_output_port(n, DEFAULT_PORT_NAME)
       IN /\ connected_ports' = r.cp
          /\ last_connect' = [kind |-> "Pipe.connect",
                              self |-> IF got.err = "none" THEN got.port ELSE NoPort,
                              args |-> args, err |-> r.err]
  /\ UNCHANGED NotGraph

\* pipeline.connect(src_pipe_name=, src_port_name=, dst_pipe_name=, dst_port_name=)
CallPipelineConnect ==
  /\ pc = "setup"
  /\ \E sn \in ConnectNodes, sp \in ConnectNames, dn \in ConnectNodes, dp \in ConnectNames :
       LET r == PipelineConnect(connected_ports, sn, sp, dn, dp)
           found == /\ sp \in Range(output_port_names(sn))
                    /\ dp \in Range(input_port_names(dn))
       IN /\ connected_ports' = r.cp
          /\ last_connect' =
               [kind |-> "Pipeline.connect",
                self |-> IF found THEN Port(OUTPUT, sp, sn) ELSE NoPort,
                args |-> IF found THEN <<[kind |-> "port", port |-> Port(INPUT, dp, dn)]>>
                         ELSE <<>>,
                err |-> r.err]
  /\ UNCHANGED NotGraph

NextConnect ==
  \/ CallPortConnect
  \/ CallPipeConnect
  \/ CallPipelineConnect

SpecConnect == InitConnect /\ [][NextConnect]_vars

\* ------------------------------------------------------------------------
\* Constructor calls
\* ------------------------------------------------------------------------

\* the port names the constructors are given
BuildNames == {"A", "X"}

\* the lists of port names: any list up to MaxNames long, and the default
NameLists == UNION {[1..n -> BuildNames] : n \in 0..MaxNames}

NameArgs == NameLists \cup {<<DEFAULT_PORT_NAME>>}

\* the routing tables a Splitter is given: any keys, any listed names
BuildRoutings == UNION {[K -> NameLists] : K \in SUBSET BuildNames}

\* the constructor calls: a Source takes no input_names, a Sink no
\* output_names, and only a Splitter takes a routing
ConstructCalls ==
  {[klass |-> "Pipe", input_names |-> i, output_names |-> o, routing |-> <<>>] :
     i \in NameArgs, o \in NameArgs}
  \cup {[klass |-> "Source", input_names |-> <<>>, output_names |-> o, routing |-> <<>>] :
          o \in NameArgs}
  \cup {[klass |-> "Sink", input_names |-> i, output_names |-> <<>>, routing |-> <<>>] :
          i \in NameArgs}
  \cup {[klass |-> "Splitter", input_names |-> i, output_names |-> o, routing |-> rt] :
          i \in NameArgs, o \in NameArgs, rt \in BuildRoutings}

\* a pipeline in which nothing was emitted and nothing scheduled
AtRest ==
  /\ connected_ports = NoLinks
  /\ hash_order = BaseOrder
  /\ routing = ("A" :> <<"X", "Y">>)
  /\ buffer = [p \in Ports |-> <<>>]
  /\ input_q = <<>>
  /\ event_seq = 0
  /\ emit_count = [n \in Nodes |-> 0]
  /\ src_idx = 0
  /\ err = "none"
  /\ sent = [s \in Sources |-> 0]
  /\ received = [n \in Sinks |-> <<>>]
  /\ next_eid = 0
  /\ delivered = <<>>
  /\ last_call = NoCall
  /\ last_emits = <<>>
  /\ last_pump = NoPump
  /\ raised = "none"
  /\ last_connect = NoConnect
  /\ round_emits = 0
  /\ steady = TRUE

Engine == <<buffer, input_q, event_seq, emit_count, pc, src_idx, err, sent, received,
            next_eid, delivered, last_call, last_emits, last_pump, raised, round_emits,
            steady>>

Wires == <<connected_ports, hash_order, routing, scenario, last_connect>>

\* the arguments of one constructor call, before the call
InitConstruct ==
  /\ AtRest
  /\ scenario = "construct"
  /\ pc = "build"
  /\ registry = <<>>
  /\ made = 0
  /\ last_op \in {[kind |-> "args", call |-> c] : c \in ConstructCalls}

\* klass(pipeline, ...): the call raises or leaves a node object
CallConstruct ==
  /\ pc = "build"
  /\ last_op.kind = "args"
  /\ LET c == last_op.call
         r == Construct(c)
     IN /\ last_op' = [kind |-> "construct", call |-> c, err |-> r.err,
                       node |-> IF r.err = "none" THEN NodeObject(made + 1, c, r)
                                ELSE NoNode]
        /\ made' = IF r.err = "none" THEN made + 1 ELSE made
  /\ UNCHANGED <<Engine, Wires, registry>>

NextConstruct == CallConstruct

SpecConstruct == InitConstruct /\ [][NextConstruct]_vars

\* ------------------------------------------------------------------------
\* Registry calls
\* ------------------------------------------------------------------------

\* the names nodes are registered under
RegNames == {"g", "p"}

\* the constructor calls made for the registry: the default ports of each
\* class, and one call that raises
CreateCalls ==
  {[klass |-> "Pipe", input_names |-> <<DEFAULT_PORT_NAME>>,
    output_names |-> <<DEFAULT_PORT_NAME>>, routing |-> <<>>],
   [klass |-> "Source", input_names |-> <<>>, output_names |-> <<DEFAULT_PORT_NAME>>,
    routing |-> <<>>],
   [klass |-> "Sink", input_names |-> <<DEFAULT_PORT_NAME>>, output_names |-> <<>>,
    routing |-> <<>>],
   [klass |-> "Pipe", input_names |-> <<"A", "A">>, output_names |-> <<DEFAULT_PORT_NAME>>,
    routing |-> <<>>]}

\* self.pipe_dict.get(name): the node registered under name, NoNode if none
Lookup(reg, name) ==
  IF \E i \in 1..Len(reg) : reg[i].name = name
  THEN reg[CHOOSE i \in 1..Len(reg) : reg[i].name = name].pipe
  ELSE NoNode

InitRegistry ==
  /\ AtRest
  /\ scenario = "registry"
  /\ pc = "registry"
  /\ registry = <<>>
  /\ made = 0
  /\ last_op = NoOp

\* pipeline.create_pipe(name, klass, ...)
CallCreatePipe ==
  /\ pc = "registry"
  /\ made < MaxPipes
  /\ \E name \in RegNames, c \in CreateCalls :
       LET r == create_pipe(registry, made + 1, name, c)
       IN /\ registry' = r.registry
          /\ made' = IF r.err = "none" THEN made + 1 ELSE made
          /\ last_op' = [kind |-> "create_pipe", name |-> name, call |-> c,
                         err |-> r.err, node |-> r.node, held |-> Lookup(registry, name)]
  /\ UNCHANGED <<Engine, Wires>>

\* pipeline.register(name, klass(pipeline, ...)): a node made for the call
CallRegisterNew ==
  /\ pc = "registry"
  /\ made < MaxPipes
  /\ \E name \in RegNames, c \in CreateCalls :
       /\ Construct(c).err = "none"
       /\ LET pipe == NodeObject(made + 1, c, Construct(c))
              r == register(registry, name, pipe)
          IN /\ registry' = r.registry
             /\ made' = made + 1
             /\ last_op' = [kind |-> "register", name |-> name, call |-> c,
                            err |-> r.err, node |-> pipe, held |-> Lookup(registry, name)]
  /\ UNCHANGED <<Engine, Wires>>

\* pipeline.register(name, pipe) of a node that is registered already
CallRegisterAgain ==
  /\ pc = "registry"
  /\ \E name \in RegNames, i \in 1..Len(registry) :
       LET pipe == registry[i].pipe
           r == register(registry, name, pipe)
       IN /\ registry' = r.registry
          /\ last_op' = [kind |-> "register", name |-> name, call |-> NoOp,
                         err |-> r.err, node |-> pipe, held |-> Lookup(registry, name)]
  /\ UNCHANGED <<Engine, Wires, made>>

NextRegistry ==
  \/ CallCreatePipe
  \/ CallRegisterNew
  \/ CallRegisterAgain

SpecRegistry == InitRegistry /\ [][NextRegistry]_vars

\* ------------------------------------------------------------------------
\* Direct calls: what the code of a node, or the code that assembles the
\* graph, may call at any time
\* ------------------------------------------------------------------------

\* the payload of the direct calls
Payloads == {1}

\* the nodes the direct calls are made on: a Source and two Sinks
CallNodes == {"A", "K1", "K2"}

CallPorts == {p \in Ports : p.owner \in CallNodes}

\* the arguments of the connect calls: one or two nodes
PipeArgLists ==
  {<<[kind |-> "pipe", pipe |-> n]>> : n \in CallNodes}
    \cup {<<[kind |-> "pipe", pipe |-> n], [kind |-> "pipe", pipe |-> m]>> :
            n \in CallNodes, m \in CallNodes}

\* _PORT_DICT.__getitem__ of pipe.INPUT or pipe.OUTPUT: a dict lookup
PortDictGet(n, type, name) ==
  LET names == IF type = INPUT THEN input_port_names(n) ELSE output_port_names(n)
  IN IF name \notin Range(names) THEN [err |-> "KeyError"]
     ELSE [err |-> "none", port |-> Port(type, name, n)]

\* the sum of f over the set S
RECURSIVE SumOver(_, _)
SumOver(S, f) ==
  IF S = {} THEN 0
  ELSE LET x == CHOOSE y \in S : TRUE IN f[x] + SumOver(S \ {x}, f)

\* few items were emitted, recorded or counted so far
FewItems ==
  next_eid + SumOver(Nodes, emit_count) + SumOver(Sinks, [n \in Sinks |-> Len(received[n])])
    < MaxDirectItems

\* a call is made while few items exist, or when it adds none
WithinBudget(st) ==
  \/ FewItems
  \/ (st.next_eid = next_eid /\ st.emit_count = emit_count /\ st.received = received)

InitCalls ==
  /\ scenario = "calls"
  /\ connected_ports = NoLinks
  /\ hash_order = BaseOrder
  /\ routing = ("A" :> <<"X", "Y">>)
  /\ buffer = [p \in Ports |-> <<>>]
  /\ input_q = <<>>
  /\ event_seq = 0
  /\ emit_count = [n \in Nodes |-> 0]
  /\ pc = "calls"
  /\ src_idx = 0
  /\ err = "none"
  /\ sent = [s \in Sources |-> 0]
  /\ received = [n \in Sinks |-> <<>>]
  /\ next_eid = 0
  /\ delivered = <<>>
  /\ last_call = NoCall
  /\ last_emits = <<>>
  /\ last_pump = NoPump
  /\ raised = "none"
  /\ last_connect = NoConnect
  /\ round_emits = 0
  /\ steady = TRUE
  /\ registry = StaticRegistry(routing)
  /\ made = Len(pipe_dict)
  /\ last_op = NoOp

\* what a connect call leaves alone
ConnectFrame ==
  <<hash_order, routing, buffer, input_q, event_seq, emit_count, pc, src_idx,
    err, scenario, sent, received, next_eid, delivered, last_call, last_emits,
    last_pump, raised, round_emits, steady, registry, made>>

\* what a direct call of a node's or a port's method leaves alone
CallFrame ==
  <<connected_ports, hash_order, routing, pc, src_idx, err, scenario, sent, delivered,
    last_call, last_pump, raised, round_emits, steady, registry, made>>

\* history: the engine as a direct call found it
EngineNow ==
  [buffer |-> buffer, input_q |-> input_q, event_seq |-> event_seq,
   next_eid |-> next_eid]

\* port.connect(pipe, ...); the record keeps the connection sets the call
\* found
DirectPortConnect ==
  /\ pc = "calls"
  /\ \E self \in CallPorts, args \in PipeArgLists :
       LET r == PortConnect(connected_ports, self, args)
       IN /\ connected_ports' = r.cp
          /\ last_connect' = [kind |-> "Port.connect", self |-> self, args |-> args,
                              err |-> r.err, before |-> connected_ports]
  /\ last_op' = NoOp
  /\ UNCHANGED ConnectFrame

\* pipe.connect(pipe)
DirectPipeConnect ==
  /\ pc = "calls"
  /\ \E n \in CallNodes, m \in CallNodes :
       LET args == <<[kind |-> "pipe", pipe |-> m]>>
           r == PipeConnect(connected_ports, n, args)
       IN /\ connected_ports' = r.cp
          /\ last_connect' = [kind |-> "Pipe.connect", pipe |-> n, args |-> args,
                              err |-> r.err, before |-> connected_ports]
  /\ last_op' = NoOp
  /\ UNCHANGED ConnectFrame

\* pipeline.connect(src_pipe_name=, dst_pipe_name=), the default ports
DirectPipelineConnect ==
  /\ pc = "calls"
  /\ \E sn \in CallNodes, dn \in CallNodes :
       LET r == PipelineConnect(connected_ports, sn, DEFAULT_PORT_NAME, dn, DEFAULT_PORT_NAME)
       IN /\ connected_ports' = r.cp
          /\ last_connect' = [kind |-> "Pipeline.connect", src_pipe_name |-> sn,
                              dst_pipe_name |-> dn, err |-> r.err,
                              before |-> connected_ports]
  /\ last_op' = NoOp
  /\ UNCHANGED ConnectFrame

\* pipe.get_input_port(), pipe.get_output_port(), pipe.INPUT["default"] or
\* pipe.OUTPUT["default"]
DirectPortAccess ==
  /\ pc = "calls"
  /\ \E n \in CallNodes, how \in {"get_input_port", "get_output_port", "INPUT", "OUTPUT"} :
       LET name == DEFAULT_PORT_NAME
           got == CASE how = "get_input_port" -> get_input_port(n, name)
                    [] how = "get_output_port" -> get_output_port(n, name)
                    [] how = "INPUT" -> PortDictGet(n, INPUT, name)
                    [] how = "OUTPUT" -> PortDictGet(n, OUTPUT, name)
       IN last_op' = [kind |-> how, node |-> n, name |-> name, err |-> got.err,
                      port |-> IF got.err = "none" THEN got.port ELSE NoPort,
                      before |-> EngineNow]
  /\ last_connect' = NoConnect
  /\ UNCHANGED <<CallFrame, buffer, input_q, event_seq, emit_count, next_eid, received,
                 last_emits>>

\* port.emit(data)
DirectPortEmit ==
  /\ pc = "calls"
  /\ \E self \in CallPorts, data \in Payloads :
       LET st == PortEmit(CallState, self, data)
       IN /\ WithinBudget(st)
          /\ Commit(st)
          /\ last_op' = [kind |-> "Port.emit", node |-> self.owner, name |-> self.name,
                         err |-> st.err, port |-> self, data |-> data,
                         before |-> EngineNow]
  /\ last_connect' = NoConnect
  /\ UNCHANGED CallFrame

\* pipe.emit(data, name)
DirectPipeEmit ==
  /\ pc = "calls"
  /\ \E n \in CallNodes, name \in ConnectNames, data \in Payloads :
       LET st == PipeEmit(CallState, n, data, name)
       IN /\ WithinBudget(st)
          /\ Commit(st)
          /\ last_op' = [kind |-> "Pipe.emit", node |-> n, name |-> name,
                         err |-> st.err, port |-> NoPort, data |-> data,
                         before |-> EngineNow]
  /\ last_connect' = NoConnect
  /\ UNCHANGED CallFrame

\* pipe.on_data_arrival(name, data), called directly
DirectOnDataArrival ==
  /\ pc = "calls"
  /\ \E n \in CallNodes, data \in Payloads :
       LET st == on_data_arrival(CallState, n, DEFAULT_PORT_NAME, data)
       IN /\ WithinBudget(st)
          /\ Commit(st)
          /\ last_op' = [kind |-> "on_data_arrival", node |-> n,
                         name |-> DEFAULT_PORT_NAME, err |-> st.err, port |-> NoPort,
                         data |-> data, before |-> EngineNow]
  /\ last_connect' = NoConnect
  /\ UNCHANGED CallFrame

\* one pass of the delivery loop of Pipeline.pump on a queue that is not
\* empty, between other calls: get, popleft, on_data_arrival, and the put
\* back if the buffer is not empty; an IndexError of the get or the popleft
\* ends the pass
DirectDeliver ==
  /\ pc = "calls"
  /\ input_q # <<>>
  /\ LET got == QueueGet(buffer, input_q)
         port == got.item
     IN IF got.err # "none" \/ is_buffer_empty(buffer[port])
        THEN /\ input_q' = got.h
             /\ last_emits' = <<>>
             /\ last_op' = [kind |-> "deliver", node |-> port.owner, name |-> port.name,
                            err |-> "IndexError", port |-> port, called |-> FALSE,
                            before |-> EngineNow]
             /\ UNCHANGED <<buffer, event_seq, emit_count, next_eid, received>>
        ELSE LET item == Head(buffer[port])
                 st0 == [CallState EXCEPT !.input_q = got.h,
                                          !.buffer[port] = Tail(@)]
                 st1 == on_data_arrival(st0, port.owner, port.name, item.data)
                 back == IF st1.err = "none" /\ ~is_buffer_empty(st1.buffer[port])
                         THEN QueuePut(st1.buffer, st1.input_q, port)
                         ELSE [h |-> st1.input_q, err |-> st1.err]
                 st2 == [st1 EXCEPT !.input_q = back.h, !.err = back.err]
             IN /\ Commit(st2)
                /\ last_op' = [kind |-> "deliver", node |-> port.owner,
                               name |-> port.name, err |-> st2.err, port |-> port,
                               called |-> TRUE, data |-> item.data,
                               before |-> EngineNow]
  /\ last_connect' = NoConnect
  /\ UNCHANGED CallFrame

NextCalls ==
  \/ DirectPortConnect
  \/ DirectPipeConnect
  \/ DirectPipelineConnect
  \/ DirectPortAccess
  \/ DirectPortEmit
  \/ DirectPipeEmit
  \/ DirectOnDataArrival
  \/ DirectDeliver

SpecCalls == InitCalls /\ [][NextCalls]_vars

\* ------------------------------------------------------------------------
\* dltools.schema: the JSON types and _infer_schema
\* ------------------------------------------------------------------------

\* "no schema": Python's None
None == [k |-> "None"]

\* the singletons NUMBER, INT, NULL, and STRING and BOOLEAN, here STR and
\* BOOL as those two names are words of the language
NUMBER == [k |-> "NumberType"]

INT == [k |-> "IntType"]

STR == [k |-> "StringType"]

NULL == [k |-> "NullType"]

BOOL == [k |-> "BooleanType"]

\* the class object NullType itself, which is no instance of any JSONType
NullTypeClass == [k |-> "class NullType"]

\* ArrayType(item_type)
ArrayType(item_type) == [k |-> "ArrayType", item_type |-> item_type]

\* StructType(): field_dict as the ordered (name, type) pairs of the dict
StructType(field_dict) ==
  [k |-> "StructType", field_dict |-> field_dict, additionalProperties |-> FALSE]

\* AnyOf(*children)
AnyOf(children) == [k |-> "AnyOf", children |-> children]

\* the result of a call: the value returned, or the exception raised
Returns(s) == [err |-> "none", s |-> s]

Raises(e) == [err |-> e, s |-> None]

\* _find_instance_type(instance, *types) is not None
_find_instance_type(instance, types) == instance.k \in types

\* [t for t in children if not isinstance(t, one of types)]
Without(children, types) == SelectSeq(children, LAMBDA t : t.k \notin types)

\* _split_anyof_in_strict_mode(schema): exactly one NullType child and one
\* other child, asserted
_split_anyof_in_strict_mode(schema) ==
  LET nulls == SelectSeq(schema.children, LAMBDA t : t.k = "NullType")
      others == Without(schema.children, {"NullType"})
  IN IF Len(nulls) # 1 \/ Len(others) # 1
     THEN [err |-> "AssertionError", null_type |-> None, non_null_type |-> None]
     ELSE [err |-> "none", null_type |-> nulls[1], non_null_type |-> others[1]]

\* the branch of _infer_schema that a scalar of the JSON type own takes:
\* same is the set of types that already include it, drop the types the new
\* one replaces in an AnyOf, plain the other types it is joined to with AnyOf
ScalarBranch(schema, strict, own, same, plain) ==
  IF schema = None THEN Returns(own)
  ELSE IF schema.k \in same THEN Returns(schema)
  ELSE IF schema.k = "NullType" THEN Returns(AnyOf(<<schema, own>>))
  ELSE IF _find_instance_type(schema, plain)
  THEN IF strict THEN Raises("IncompatibleScehma") ELSE Returns(AnyOf(<<schema, own>>))
  ELSE IF schema.k = "AnyOf"
  THEN IF strict
       THEN LET sp == _split_anyof_in_strict_mode(schema)
            IN IF sp.err # "none" THEN Raises(sp.err)
               ELSE IF sp.non_null_type.k \in same THEN Returns(schema)
               ELSE Raises("IncompatibleScehma")
       ELSE Returns(AnyOf(Append(Without(schema.children, same), own)))
  ELSE Raises("AssertionError")

\* type(data) == int
IntBranch(schema, strict) ==
  IF schema # None /\ schema.k = "AnyOf" /\ ~strict
  THEN IF \E i \in 1..Len(schema.children) :
            schema.children[i].k \in {"IntType", "NumberType"}
       THEN Returns(schema)
       ELSE Returns(AnyOf(Append(schema.children, INT)))
  ELSE ScalarBranch(schema, strict, INT, {"IntType", "NumberType"},
                    {"BooleanType", "StringType", "ArrayType", "StructType"})

\* type(data) == float
FloatBranch(schema, strict) ==
  IF schema # None /\ schema.k = "IntType" THEN Returns(NUMBER)
  ELSE IF schema # None /\ schema.k = "AnyOf"
  THEN IF strict
       THEN LET sp == _split_anyof_in_strict_mode(schema)
            IN IF sp.err # "none" THEN Raises(sp.err)
               ELSE IF sp.non_null_type.k = "IntType"
               THEN Returns(AnyOf(<<sp.null_type, NUMBER>>))
               ELSE IF sp.non_null_type.k = "NumberType" THEN Returns(schema)
               ELSE Raises("IncompatibleScehma")
       ELSE Returns(AnyOf(Append(Without(schema.children, {"IntType", "NumberType"}),
                                 NUMBER)))
  ELSE ScalarBranch(schema, strict, NUMBER, {"NumberType"},
                    {"BooleanType", "StringType", "ArrayType", "StructType"})

\* the branch written for booleans, which is entered on type(schema) == bool
BoolBranch(schema, strict) ==
  ScalarBranch(schema, strict, BOOL, {"BooleanType"},
               {"NumberType", "IntType", "StringType", "ArrayType", "StructType"})

\* type(data) == str
StrBranch(schema, strict) ==
  ScalarBranch(schema, strict, STR, {"StringType"},
               {"BooleanType", "NumberType", "IntType", "ArrayType", "StructType"})

\* data is None
NoneBranch(schema, strict) ==
  IF schema = None THEN Returns(NullTypeClass)
  ELSE IF schema.k = "NullType" THEN Returns(schema)
  ELSE IF _find_instance_type(schema, {"BooleanType", "NumberType", "IntType",
                                       "StringType", "ArrayType", "StructType"})
  THEN Returns(AnyOf(<<schema, NULL>>))
  ELSE IF schema.k = "AnyOf"
  THEN IF strict THEN Returns(schema)
       ELSE Returns(AnyOf(Append(Without(schema.children, {"NullType"}), NULL)))
  ELSE Raises("AssertionError")

\* the position of the first child of type kind in children, 0 if none
ChildAt(children, kind) ==
  LET at == {i \in 1..Len(children) : children[i].k = kind}
  IN IF at = {} THEN 0 ELSE CHOOSE i \in at : \A j \in at : i <= j

\* the first part of the list and the dict branch, kind being ArrayType or
\* StructType and fresh a new empty one: it picks the container schema the
\* data is merged into (inner) and the schema to return (new_schema), given
\* here by its children and the position of the container among them, 0 if
\* it is not among them; children = <<>> stands for the container itself
Container(schema, strict, kind, fresh, plain) ==
  IF schema = None
  THEN [err |-> "none", inner |-> fresh, children |-> <<>>, at |-> 0]
  ELSE IF schema.k = kind
  THEN [err |-> "none", inner |-> schema, children |-> <<>>, at |-> 0]
  ELSE IF schema.k = "AnyOf"
  THEN IF strict
       THEN LET sp == _split_anyof_in_strict_mode(schema)
            IN IF sp.err # "none" THEN [err |-> sp.err]
               ELSE IF sp.non_null_type.k # kind THEN [err |-> "IncompatibleScehma"]
               ELSE [err |-> "none", inner |-> sp.non_null_type,
                     children |-> schema.children,
                     at |-> ChildAt(schema.children, kind)]
       ELSE LET found == SelectSeq(schema.children, LAMBDA t : t.k = kind)
                children == Without(schema.children, {kind})
            IN IF Len(found) > 1 THEN [err |-> "AssertionError"]
               ELSE IF Len(found) = 1
               THEN [err |-> "none", inner |-> found[1], children |-> children,
                     at |-> 0]
               ELSE [err |-> "none", inner |-> fresh,
                     children |-> Append(children, fresh),
                     at |-> Len(children) + 1]
  ELSE IF schema.k = "NullType"
  THEN [err |-> "none", inner |-> fresh, children |-> <<schema, fresh>>, at |-> 2]
  ELSE IF _find_instance_type(schema, plain)
  THEN IF strict THEN [err |-> "IncompatibleScehma"]
       ELSE [err |-> "none", inner |-> fresh, children |-> <<schema, fresh>>, at |-> 2]
  ELSE [err |-> "AssertionError"]

\* new_schema once the container, which it refers to, has been updated
NewSchema(c, inner) ==
  IF c.children = <<>> THEN inner
  ELSE IF c.at = 0 THEN AnyOf(c.children)
  ELSE AnyOf([c.children EXCEPT ![c.at] = inner])

\* struct_schema.field_dict[key] = field_schema
SetField(field_dict, key, field_schema) ==
  IF \E i \in 1..Len(field_dict) : field_dict[i][1] = key
  THEN [i \in 1..Len(field_dict) |->
          IF field_dict[i][1] = key THEN <<key, field_schema>> ELSE field_dict[i]]
  ELSE Append(field_dict, <<key, field_schema>>)

\* struct_schema.field_dict.get(key)
GetField(field_dict, key) ==
  IF \E i \in 1..Len(field_dict) : field_dict[i][1] = key
  THEN field_dict[CHOOSE i \in 1..Len(field_dict) : field_dict[i][1] = key][2]
  ELSE None

\* the end of the list branch: with no item type the array is dropped
ListResult(new_schema) ==
  IF new_schema.k = "ArrayType" THEN Returns(None)
  ELSE IF new_schema.k = "AnyOf"
  THEN LET children == Without(new_schema.children, {"ArrayType"})
       IN IF Len(children) = 0 THEN Returns(None)
          ELSE IF Len(children) = 1 THEN Returns(children[1])
          ELSE Returns(AnyOf(children))
  ELSE Raises("AssertionError")

\* _infer_schema(data, schema, strict), with the loops of its list branch
\* (ItemLoop, from the i-th item on) and of its dict branch (FieldLoop, from
\* the i-th key on)
RECURSIVE _infer_schema(_, _, _), ItemLoop(_, _, _, _), FieldLoop(_, _, _, _)
ItemLoop(items, item_schema, strict, i) ==
  IF i > Len(items) THEN Returns(item_schema)
  ELSE LET r == _infer_schema(items[i], item_schema, strict)
       IN IF r.err # "none" THEN r
          ELSE ItemLoop(items, r.s, strict, i + 1)

FieldLoop(fields, field_dict, strict, i) ==
  IF i > Len(fields) THEN [err |-> "none", field_dict |-> field_dict]
  ELSE LET key == fields[i][1]
           r == _infer_schema(fields[i][2], GetField(field_dict, key), strict)
       IN IF r.err # "none" THEN [err |-> r.err, field_dict |-> field_dict]
          ELSE FieldLoop(fields,
                         IF r.s # None THEN SetField(field_dict, key, r.s)
                         ELSE field_dict,
                         strict, i + 1)

_infer_schema(data, schema, strict) ==
  IF data.t = "int" THEN IntBranch(schema, strict)
  ELSE IF data.t = "float" THEN FloatBranch(schema, strict)
  ELSE IF schema.k = "bool" THEN BoolBranch(schema, strict)
  ELSE IF data.t = "str" THEN StrBranch(schema, strict)
  ELSE IF data.t = "NoneType" THEN NoneBranch(schema, strict)
  ELSE IF data.t = "list"
  THEN LET c == Container(schema, strict, "ArrayType", ArrayType(None),
                          {"BooleanType", "NumberType", "IntType", "StringType",
                           "StructType"})
       IN IF c.err # "none" THEN Raises(c.err)
          ELSE LET r == ItemLoop(data.items, c.inner.item_type, strict, 1)
               IN IF r.err # "none" THEN r
                  ELSE IF r.s = None
                  THEN ListResult(NewSchema(c, [c.inner EXCEPT !.item_type = r.s]))
                  ELSE Returns(NewSchema(c, [c.inner EXCEPT !.item_type = r.s]))
  ELSE IF data.t = "dict"
  THEN LET c == Container(schema, strict, "StructType", StructType(<<>>),
                          {"BooleanType", "NumberType", "IntType", "StringType",
                           "ArrayType"})
       IN IF c.err # "none" THEN Raises(c.err)
          ELSE LET r == FieldLoop(data.fields, c.inner.field_dict, strict, 1)
               IN IF r.err # "none" THEN Raises(r.err)
                  ELSE Returns(NewSchema(c, [c.inner EXCEPT !.field_dict = r.field_dict]))
  ELSE Returns(None)

\* infer_schema(*data, schema=s, strict=strict), from the i-th value on
RECURSIVE infer_schema(_, _, _, _)
infer_schema(data, s, strict, i) ==
  IF i > Len(data) THEN Returns(s)
  ELSE LET r == _infer_schema(data[i], s, strict)
       IN IF r.err # "none" THEN r
          ELSE infer_schema(data, r.s, strict, i + 1)

\* whether s.schema() gives a JSON schema: s is an instance of JSONType, and
\* no array in it is without an item type
RECURSIVE HasSchema(_)
HasSchema(s) ==
  CASE s.k \in {"NumberType", "IntType", "StringType", "NullType", "BooleanType"} -> TRUE
    [] s.k = "ArrayType" -> s.item_type # None /\ HasSchema(s.item_type)
    [] s.k = "StructType" ->
         \A i \in 1..Len(s.field_dict) : HasSchema(s.field_dict[i][2])
    [] s.k = "AnyOf" -> \A i \in 1..Len(s.children) : HasSchema(s.children[i])
    [] OTHER -> FALSE

\* s.validator.validate(d) passes: Draft 2020-12 validation of d against
\* s.schema(), for the types the JSONType classes produce (the floats of
\* the model are not whole numbers, so "integer" takes ints only)
RECURSIVE Accepts(_, _)
Accepts(s, d) ==
  CASE s.k = "IntType" -> d.t = "int"
    [] s.k = "NumberType" -> d.t \in {"int", "float"}
    [] s.k = "BooleanType" -> d.t = "bool"
    [] s.k = "StringType" -> d.t = "str"
    [] s.k = "NullType" -> d.t = "NoneType"
    [] s.k = "ArrayType" ->
         /\ d.t = "list"
         /\ \A i \in 1..Len(d.items) : Accepts(s.item_type, d.items[i])
    [] s.k = "StructType" ->
         /\ d.t = "dict"
         /\ \A i \in 1..Len(d.fields) :
              LET sub == GetField(s.field_dict, d.fields[i][1])
              IN IF sub = None THEN s.additionalProperties
                 ELSE Accepts(sub, d.fields[i][2])
    [] s.k = "AnyOf" -> \E i \in 1..Len(s.children) : Accepts(s.children[i], d)
    [] OTHER -> FALSE

\* JSON values as Python holds them
Scalar(t, v) == [t |-> t, v |-> v]

List(items) == [t |-> "list", items |-> items]

Dict(fields) == [t |-> "dict", fields |-> fields]

Scalars ==
  {Scalar("int", "1"), Scalar("float", "1.5"), Scalar("bool", "True"),
   Scalar("str", "a"), Scalar("NoneType", "None")}

\* the values the calls are made with: the scalars, lists of one scalar, of
\* two and of a list or a dict, and dicts of no key, one key and two keys
JsonValues ==
  Scalars
    \cup {List(<<s>>) : s \in Scalars}
    \cup {List(<<Scalar("int", "1"), Scalar("float", "1.5")>>),
          List(<<Scalar("int", "1"), Scalar("str", "a")>>),
          List(<<List(<<Scalar("int", "1")>>)>>),
          List(<<Dict(<<<<"x", Scalar("int", "1")>>>>)>>)}
    \cup {Dict(<<>>)}
    \cup {Dict(<<<<"x", s>>>>) : s \in Scalars}
    \cup {Dict(<<<<"y", Scalar("str", "a")>>>>),
          Dict(<<<<"x", Scalar("int", "1")>>, <<"y", Scalar("float", "1.5")>>>>),
          Dict(<<<<"x", List(<<Scalar("int", "1")>>)>>>>)}

\* the argument lists of infer_schema
DataLists == UNION {[1..n -> JsonValues] : n \in 0..MaxData}

InitInfer ==
  /\ AtRest
  /\ scenario = "schema"
  /\ pc = "infer"
  /\ registry = <<>>
  /\ made = 0
  /\ last_op \in {[kind |-> "args", data |-> data, strict |-> strict] :
                    data \in DataLists, strict \in BOOLEAN}

\* infer_schema(*data, strict=strict), starting from no schema
CallInferSchema ==
  /\ pc = "infer"
  /\ last_op.kind = "args"
  /\ LET r == infer_schema(last_op.data, None, last_op.strict, 1)
     IN last_op' = [kind |-> "infer_schema", data |-> last_op.data,
                    strict |-> last_op.strict, err |-> r.err, s |-> r.s]
  /\ UNCHANGED <<Engine, Wires, registry, made>>

NextInfer == CallInferSchema

SpecInfer == InitInfer /\ [][NextInfer]_vars

\* ------------------------------------------------------------------------
\* The claims
\* ------------------------------------------------------------------------

\* the items buffered in any port
Buffered == UNION {Range(buffer[p]) : p \in Ports}

Increasing(seq) == \A i, j \in 1..Len(seq) : i < j => seq[i] < seq[j]

\* how often x occurs in seq
Count(seq, x) == Cardinality({i \in 1..Len(seq) : seq[i] = x})

\* C1 (as claimed): no item is delivered while an item emitted before it is
\* still buffered in some port, so the items are delivered in the order in
\* which they were emitted
C1_GlobalDeliveryOrder ==
  /\ last_call # NoCall => \A it \in Buffered : last_call.eid < it.eid
  /\ Increasing(delivered)

\* C2 (as claimed): the allocator returns a value greater than every value it
\* returned before, so of two buffered items the one appended later carries
\* the greater sequence number, and no two carry the same
C2_AllocatorStrictlyIncreasing ==
  /\ \A x, y \in Buffered : x.eid < y.eid => x.seq < y.seq
  /\ \A it \in Buffered : it.seq < event_seq

\* C3 (as claimed): when no callback raises, every item appended to a buffer
\* is delivered exactly once: none is delivered twice, the scheduler does not
\* stop, and at the end of a round no item is left in a buffer
C3_ExactlyOnce ==
  raised = "none" =>
    /\ \A e \in 0..(next_eid - 1) :
         Count(delivered, e) + Cardinality({it \in Buffered : it.eid = e}) = 1
    /\ pc # "halted"
    /\ pc = "idle" => Buffered = {}

\* C4 (as claimed): whenever the scheduler is about to take an entry, a port
\* has an entry in the ready queue iff its buffer is not empty, and has at
\* most one
C4_ReadySetInvariant ==
  pc = "deliver" =>
    \A p \in Ports : Count(input_q, p) = (IF is_buffer_empty(buffer[p]) THEN 0 ELSE 1)

\* C5 (as claimed): once a pump() or an on_data_arrival() has raised, the
\* exception has left Pipeline.pump and the pipeline is halted
C5_FailFast == raised # "none" => (pc = "halted" /\ err # "none")

\* C10 (as claimed): pump_wrapper() returns true iff the pump() call it made
\* performed at least one emission, through Pipe.emit or through a port's emit
C10_PumpWrapperReportsEmission ==
  (last_pump # NoPump /\ last_pump.err = "none") =>
    (last_pump.ret <=> last_pump.calls > 0)

\* the first of the Port arguments that has the direction of self, 0 if none
FirstSameType(self, args) ==
  LET same == {i \in 1..Len(args) : args[i].port.type = self.type}
  IN IF same = {} THEN 0 ELSE CHOOSE i \in same : \A j \in same : i <= j

\* C6: a connect between two ports of one direction fails, between two ports
\* of opposite directions succeeds and links both ways; whatever calls were
\* made, the connection sets are symmetric and link opposite directions only
C6_ConnectionInvariant ==
  /\ \A a, b \in Ports : b \in connected_ports[a] <=> a \in connected_ports[b]
  /\ \A a \in Ports : \A b \in connected_ports[a] : a.type # b.type
  /\ (/\ last_connect # NoConnect
      /\ last_connect.self # NoPort
      /\ \A i \in 1..Len(last_connect.args) : last_connect.args[i].kind = "port")
     => LET self == last_connect.self
            args == last_connect.args
            k == FirstSameType(self, args)
        IN /\ (last_connect.err = "none") <=> (k = 0)
           /\ \A i \in 1..Len(args) :
                (k = 0 \/ i < k) => /\ args[i].port \in connected_ports[self]
                                    /\ self \in connected_ports[args[i].port]

\* C6 witness: a call that connected one port and then failed on a port of
\* its own direction, and left the first connection in both sets
C6_Witness ==
  /\ last_connect # NoConnect
  /\ last_connect.kind = "Port.connect"
  /\ Len(last_connect.args) = 2
  /\ last_connect.args[1].kind = "port"
  /\ last_connect.args[2].kind = "port"
  /\ last_connect.args[1].port.type # last_connect.self.type
  /\ last_connect.args[2].port.type = last_connect.self.type
  /\ last_connect.err = "Exception"
  /\ last_connect.self \in connected_ports[last_connect.args[1].port]
  /\ \E a \in Ports : Cardinality(connected_ports[a]) >= 2

\* what the sink K1 of the chain has recorded after n rounds of one item each
ChainArrivals(n) == [i \in 1..n |-> <<DEFAULT_PORT_NAME, <<2, 4, 6>>[i]>>]

\* C7: in the chain Source -> doubling node -> Sink, with the Source emitting
\* 1, 2, 3, one item in every round, the scheduler does not stop, and at the
\* end of the n-th round the Sink has recorded the first n of 2, 4, 6
C7_ChainDoubles ==
  (scenario = "chain" /\ raised = "none" /\ steady /\ round_emits <= 1) =>
    /\ pc # "halted"
    /\ (pc = "idle" /\ round_emits = 1) => received["K1"] = ChainArrivals(sent["A"])

\* C7 witness: the end of the third round, with 2, 4, 6 recorded
C7_Witness ==
  /\ scenario = "chain"
  /\ raised = "none"
  /\ steady
  /\ round_emits = 1
  /\ pc = "idle"
  /\ sent["A"] = 3
  /\ received["K1"] = << <<DEFAULT_PORT_NAME, 2>>, <<DEFAULT_PORT_NAME, 4>>,
                         <<DEFAULT_PORT_NAME, 6>> >>

\* C8 (as claimed): in the fan-in of two Sources into one Sink, the Sink
\* gets the items in the order of their emission, at the end of a round it
\* has got all that were emitted, and the scheduler keeps running
C8_FanIn ==
  (scenario = "fanin" /\ raised = "none") =>
    /\ Increasing(delivered)
    /\ pc = "idle" => Len(received["K1"]) = sent["A"] + sent["B"]
    /\ pc # "halted"

\* the Port.emit calls that the routing table lists for input port name
RoutedEmits(n, name, data) ==
  [i \in 1..Len(routing[name]) |-> [port |-> Port(OUTPUT, routing[name][i], n),
                                     data |-> data]]

\* C9 (as claimed): an item that arrives at input port X of a Splitter is
\* emitted, unmodified, on the output ports listed for X, once per listing and
\* in table order, and on no other; with routing {"A": ("X", "Y")} and input
\* on A only, at the end of a round the sinks behind X and Y have each got
\* every payload once and the sink behind Z none
C9_SplitterRouting ==
  /\ (/\ last_call # NoCall
      /\ last_call.node \in Splitters
      /\ last_call.name \in DOMAIN routing)
     => last_emits = RoutedEmits(last_call.node, last_call.name, last_call.data)
  /\ (/\ scenario = "split"
      /\ routing = ("A" :> <<"X", "Y">>)
      /\ sent["B"] = 0
      /\ raised = "none")
     => /\ pc # "halted"
        /\ pc = "idle" =>
             /\ received["K1"] = [i \in 1..sent["A"] |->
                                    <<DEFAULT_PORT_NAME, Script(scenario, "A")[i]>>]
             /\ received["K2"] = received["K1"]
             /\ received["K3"] = <<>>

\* a step of a round in which the ready queue is empty and no source emits
EmptyRoundStep ==
  /\ pc \in {"drain", "deliver", "idle"}
  /\ input_q = <<>>
  /\ round_emits = 0
  /\ round_emits' = 0
  /\ raised' = raised

\* C11: in a round where the ready queue is empty and no source emits, no
\* step calls on_data_arrival or changes a port buffer, the ready queue, the
\* sequence counter or what was delivered, and the delivery phase goes
\* straight to the idle callback
C11_EmptyRoundNoOp ==
  [][EmptyRoundStep =>
       /\ last_call' = NoCall
       /\ buffer' = buffer
       /\ input_q' = input_q
       /\ event_seq' = event_seq
       /\ next_eid' = next_eid
       /\ delivered' = delivered
       /\ received' = received
       /\ pc' # "halted"
       /\ pc = "deliver" => pc' = "idle"]_vars

\* C11 witness: the idle callback of an empty round that follows a round
\* with deliveries
C11_Witness ==
  /\ pc = "idle"
  /\ round_emits = 0
  /\ input_q = <<>>
  /\ delivered # <<>>
  /\ raised = "none"
  /\ last_call = NoCall

\* the list holds some name twice
HasDuplicate(names) == \E i, j \in 1..Len(names) : i < j /\ names[i] = names[j]

\* C12: a constructor call with a name twice among the input names, or twice
\* among the output names, raises and leaves no node; a call without such a
\* duplicate is accepted also when a name is both an input and an output name
\* (for a Splitter: when its routing table is valid); so the input port names
\* of every constructed node are pairwise distinct, and so are its output
\* port names
C12_DuplicateNamesFail ==
  last_op.kind = "construct" =>
    LET c == last_op.call
        dup == HasDuplicate(c.input_names) \/ HasDuplicate(c.output_names)
    IN /\ dup => (last_op.err # "none" /\ last_op.node = NoNode)
       /\ (~dup /\ c.klass # "Splitter") => last_op.err = "none"
       /\ last_op.err = "none" =>
            /\ last_op.node.input_port_names = c.input_names
            /\ last_op.node.output_port_names = c.output_names
            /\ ~HasDuplicate(last_op.node.input_port_names)
            /\ ~HasDuplicate(last_op.node.output_port_names)

\* C12 witness: a Pipe given the input names A, A and distinct output names
\* was refused
C12_Witness ==
  /\ last_op.kind = "construct"
  /\ last_op.call.klass = "Pipe"
  /\ last_op.call.input_names = <<"A", "A">>
  /\ last_op.call.output_names = <<"A", "X">>
  /\ last_op.err = "Exception"

\* C15 (as claimed): the names of the registry are unique, and a create_pipe
\* or register call under a name that is registered already raises and
\* leaves the name mapped to the node it held
C15_UniqueNames ==
  /\ \A i, j \in 1..Len(registry) : registry[i].name = registry[j].name => i = j
  /\ (last_op.kind \in {"create_pipe", "register"} /\ last_op.held # NoNode)
     => /\ last_op.err # "none"
        /\ Lookup(registry, last_op.name) = last_op.held

\* every key of the routing table of constructor call c is one of its input
\* names and every listed name one of its output names
RoutingValid(c) ==
  \A k \in DOMAIN c.routing :
    /\ k \in Range(c.input_names)
    /\ \A i \in 1..Len(c.routing[k]) : c.routing[k][i] \in Range(c.output_names)

\* C16 (as claimed): the construction of a Splitter succeeds iff every key
\* of the routing table is one of the declared input names and every listed
\* output name one of the declared output names
C16_SplitterValidation ==
  (last_op.kind = "construct" /\ last_op.call.klass = "Splitter") =>
    (last_op.err = "none" <=> RoutingValid(last_op.call))

\* C16 (amended): the construction of a Splitter succeeds iff no name is
\* twice among its input names or twice among its output names, every key of
\* the routing table is one of the input names and every listed output name
\* one of the output names
C16_SplitterValidationDistinct ==
  (last_op.kind = "construct" /\ last_op.call.klass = "Splitter") =>
    (last_op.err = "none" <=>
       /\ ~HasDuplicate(last_op.call.input_names)
       /\ ~HasDuplicate(last_op.call.output_names)
       /\ RoutingValid(last_op.call))

\* C16 witness: a Splitter with ports A -> X whose table lists A under the
\* key A, a name that is no output name, was refused
C16_Witness ==
  /\ last_op.kind = "construct"
  /\ last_op.call.klass = "Splitter"
  /\ last_op.call.input_names = <<"A">>
  /\ last_op.call.output_names = <<"X">>
  /\ last_op.call.routing = ("A" :> <<"X", "A">>)
  /\ last_op.err = "Exception"

\* the direct call recorded in last_op changed no buffer, and not the
\* ready queue or the sequence counter
EngineUntouched(op) ==
  /\ buffer = op.before.buffer
  /\ input_q = op.before.input_q
  /\ event_seq = op.before.event_seq
  /\ next_eid = op.before.next_eid

\* connecting port self to node a.pipe needs an input port of a Source
\* (as destination) or an output port of a Sink (as origin)
BadEnd(self, a) ==
  \/ self.type = OUTPUT /\ a.pipe \in Sources
  \/ self.type = INPUT /\ a.pipe \in Sinks

\* the port of node a.pipe that port self is connected to
DefaultEnd(self, a) ==
  Port(IF self.type = OUTPUT THEN INPUT ELSE OUTPUT, DEFAULT_PORT_NAME, a.pipe)

\* the first argument of a connect call from port self that is a BadEnd, 0
\* if none is
FirstBadEnd(self, args) ==
  LET bad == {i \in 1..Len(args) : BadEnd(self, args[i])}
  IN IF bad = {} THEN 0 ELSE CHOOSE i \in bad : \A j \in bad : i <= j

C14_EmitOnInputFails ==
  (last_op.kind = "Port.emit" /\ last_op.port.type = INPUT) =>
    /\ last_op.err # "none"
    /\ EngineUntouched(last_op)
    /\ last_emits = <<>>

\* C14 witness: emit was called on an input port that is connected and
\* holds an item, and raised
C14_Witness ==
  /\ last_op.kind = "Port.emit"
  /\ last_op.port.type = INPUT
  /\ last_op.err = "Exception"
  /\ connected_ports[last_op.port] # {}
  /\ buffer[last_op.port] # <<>>

\* the first Source registered after index i, 0 if there is none
NextSourceAfter(i) ==
  LET later == {j \in (i + 1)..Len(pipe_dict) : pipe_dict[j] \in Sources}
  IN IF later = {} THEN 0 ELSE CHOOSE j \in later : \A k \in later : j <= k

\* C17 (as claimed): a round starts at the first registered Source; in the
\* source-drain phase every step pumps the Source the loop is at and calls
\* no on_data_arrival; after a pump_wrapper() that returned true the same
\* Source is pumped again, after one that returned false the loop goes to the
\* next Source in registration order, and to the delivery phase after the
\* last; and after a pump() that emitted the same Source is pumped again, so
\* that a Source that emits on every call keeps every delivery from happening
C17_SourceDrainOrder ==
  [][/\ pc = "idle" => (pc' = "drain" /\ src_idx' = NextSourceAfter(0))
     /\ pc = "drain" =>
          /\ pipe_dict[src_idx] \in Sources
          /\ last_pump' # NoPump
          /\ last_pump'.src = pipe_dict[src_idx]
          /\ last_call' = NoCall
          /\ delivered' = delivered
          /\ last_pump'.err = "none" =>
               /\ last_pump'.ret => (pc' = "drain" /\ src_idx' = src_idx)
               /\ ~last_pump'.ret =>
                    IF NextSourceAfter(src_idx) # 0
                    THEN pc' = "drain" /\ src_idx' = NextSourceAfter(src_idx)
                    ELSE pc' = "deliver"
               /\ last_pump'.calls > 0 => (pc' = "drain" /\ src_idx' = src_idx)]_vars

\* C18 (as claimed): the idle callback is invoked after the delivery phase
\* and before any Source is pumped again, once per round, and whenever it is
\* invoked every port buffer is empty and so is the ready queue
C18_IdleTiming ==
  /\ [](pc = "idle" => (Buffered = {} /\ input_q = <<>>))
  /\ [][/\ pc' = "idle" => pc = "deliver"
        /\ pc = "idle" => (pc' = "drain" /\ last_pump' = NoPump /\ last_call' = NoCall)]_vars

\* s is an initial part of t
IsPrefix(s, t) == Len(s) <= Len(t) /\ SubSeq(t, 1, Len(s)) = s

\* the items that were appended to the back of buffer old to give buffer new
Appended(old, new) == SubSeq(new, Len(old) + 1, Len(new))

\* C19: a step changes the buffer of a port only by appending items at its
\* back, each newer than every item appended before, and by removing its
\* front item, which is then the item delivered to the owner of the port; so
\* in every buffer the items stand in the order in which they were appended
\* and the oldest is delivered first, whatever happens on other ports
C19_PerPortFifo ==
  /\ [](\A p \in Ports : \A i, j \in 1..Len(buffer[p]) :
           i < j => buffer[p][i].eid < buffer[p][j].eid)
  /\ [][\A p \in Ports :
          LET popped == /\ last_call' # NoCall
                        /\ last_call'.port = p
                        /\ delivered' # delivered
              kept == IF popped THEN Tail(buffer[p]) ELSE buffer[p]
          IN /\ popped =>
                  /\ buffer[p] # <<>>
                  /\ last_call'.eid = Head(buffer[p]).eid
                  /\ last_call'.data = Head(buffer[p]).data
                  /\ delivered' = Append(delivered, Head(buffer[p]).eid)
             /\ IsPrefix(kept, buffer'[p])
             /\ \A i \in 1..Len(Appended(kept, buffer'[p])) :
                  Appended(kept, buffer'[p])[i].eid >= next_eid]_vars

\* C19 witness: a port that got two items before either was delivered has
\* delivered the first and still holds the second
C19_Witness ==
  /\ last_call # NoCall
  /\ last_call.node \in Sinks
  /\ buffer[last_call.port] # <<>>
  /\ last_call.eid < Head(buffer[last_call.port]).eid
  /\ received[last_call.node] # <<>>
  /\ pc = "deliver"

\* the items a successful Port.emit recorded in last_op appended: one with
\* the payload at the end of the buffer of each port connected to the
\* emitting port, every other buffer as the call found it
FanOutBuffers(op) ==
  LET dests == connected_ports[op.port]
  IN /\ \A p \in Ports \ dests : buffer[p] = op.before.buffer[p]
     /\ \A p \in dests :
          /\ Len(buffer[p]) = Len(op.before.buffer[p]) + 1
          /\ SubSeq(buffer[p], 1, Len(op.before.buffer[p])) = op.before.buffer[p]
          /\ buffer[p][Len(buffer[p])].data = op.data

\* the sequence number of the item a Port.emit appended to port p
NewSeq(p) == buffer[p][Len(buffer[p])].seq

\* C20: one emit(payload) on an OUTPUT port with k connected ports appends
\* exactly one item carrying the payload to the buffer of each of the k
\* ports, each with its own distinct sequence number that no item held
\* before, and leaves every other buffer unchanged; with k = 0 it changes no
\* buffer, allocates no sequence number and adds nothing to the ready queue
C20_FanOutEmit ==
  (last_op.kind = "Port.emit" /\ last_op.port.type = OUTPUT /\ last_op.err = "none") =>
    LET dests == connected_ports[last_op.port]
        old == last_op.before.buffer
    IN /\ FanOutBuffers(last_op)
       /\ \A p \in dests, q \in dests : p # q => NewSeq(p) # NewSeq(q)
       /\ \A p \in dests, r \in Ports :
            \A i \in 1..Len(old[r]) : old[r][i].seq # NewSeq(p)
       /\ dests = {} => EngineUntouched(last_op)

\* C21: while no pump() and no on_data_arrival() has raised, no exception
\* leaves Pipeline.pump, and every port the ready queue holds an entry for
\* has a non-empty buffer when the delivery loop takes or compares entries,
\* also when a port received two or more items before one was delivered
C21_SchedulerNeverFaults ==
  raised = "none" =>
    /\ err = "none"
    /\ pc = "deliver" => \A i \in 1..Len(input_q) : ~is_buffer_empty(buffer[input_q[i]])

\* C22: after any sequence of connect, emit and delivery steps every OUTPUT
\* port's buffer is empty and no OUTPUT port is in the ready queue, and a
\* delivery calls on_data_arrival with the name of an input port, never on
\* a Source
C22_OnlyInputsCarryData ==
  /\ \A p \in OutPorts : is_buffer_empty(buffer[p])
  /\ \A i \in 1..Len(input_q) : input_q[i] \in InPorts
  /\ last_op.kind = "deliver" =>
       /\ last_op.port \in InPorts
       /\ last_op.node \notin Sources
  /\ (last_call # NoCall) =>
       /\ last_call.port \in InPorts
       /\ last_call.node \notin Sources

\* C22 witness: after an output port was connected and emitted, a delivery
\* called on_data_arrival of the Sink while the other connected input port
\* still holds its item
C22_Witness ==
  /\ last_op.kind = "deliver"
  /\ last_op.called
  /\ last_op.err = "none"
  /\ \E p \in OutPorts : Cardinality(connected_ports[p]) = 2
  /\ Buffered # {}
  /\ input_q # <<>>

\* C23: in non-strict mode, infer_schema(d1, ..., dn) with n >= 1, starting
\* from no schema, does not raise, returns a schema object, and that schema
\* accepts every di
C23_InferenceSound ==
  (last_op.kind = "infer_schema" /\ ~last_op.strict /\ Len(last_op.data) >= 1) =>
    /\ last_op.err = "none"
    /\ HasSchema(last_op.s)
    /\ \A i \in 1..Len(last_op.data) : Accepts(last_op.s, last_op.data[i])

====
